---------------------------- MODULE Spec2Model ----------------------------
(*************************************************************************)
(* Model of src/app.py: the two estimate endpoints of the Remodely       *)
(* backend, /api/estimate (estimate) and /api/millwork-estimate          *)
(* (millwork_estimate), and the pricing-table helper get_pricing_data.   *)
(*                                                                       *)
(* Representation.                                                       *)
(*  - A Python str is a sequence of one-character strings, so that       *)
(*    str.lower() and str.strip() are computed character by character.   *)
(*  - A Python float is a fixed-point integer in units of 1/Scale.  All  *)
(*    numbers the model draws are integers and all multipliers have two  *)
(*    decimals, so every product below is exact in this representation.  *)
(*    (IEEE rounding, "nan" and "inf" are outside the model.)            *)
(*  - A JSON / Python value is a tagged record: Absent (key not in the   *)
(*    body), PyNone (JSON null), PyNum(n), PyStr(s).                     *)
(*  - A handler is split at its outbound calls (requests.get,            *)
(*    openai.ChatCompletion.create): the answer of the remote side is an *)
(*    input of the step that makes the call.                             *)
(*************************************************************************)
EXTENDS Integers, Sequences, FiniteSets, TLC

VARIABLES
    method,          \* request.method
    data,            \* request.json: PyNone or PyDict(fields)
    pc,              \* position of the handler
    locals,          \* local variables of the handler after parsing
    pricing_resp,    \* what requests.get answered
    pricing_data,    \* result of get_pricing_data
    pricing_info,    \* the entry the handler looked up
    prelim,          \* the numeric breakdown computed by the handler
    completion,      \* what openai.ChatCompletion.create answered
    response,        \* what the handler returned
    fetch_calls,     \* number of requests.get calls made
    narrative_calls  \* number of openai.ChatCompletion.create calls made

vars == <<method, data, pc, locals, pricing_resp, pricing_data, pricing_info,
          prelim, completion, response, fetch_calls, narrative_calls>>

-----------------------------------------------------------------------------
(* Bounds of the model.                                                   *)

\* at most this many rows in the CSV a /api/estimate request fetches
MaxRows == 1

\* at most this many rows in the CSV handed to get_pricing_data alone
MaxTableRows == 2

-----------------------------------------------------------------------------
(* Numbers: fixed point, 4 decimals.                                      *)

Scale == 10 ^ 4

F(n) == n * Scale

\* a * b for fixed-point a, b: (a * b) / Scale, computed from the integer
\* and the fractional part of a so that no intermediate leaves 32 bits
Mul(a, b) == (a \div Scale) * b + ((a % Scale) * b) \div Scale

\* math.ceil(a / b) for fixed-point a, b with b # 0: an integer
Ceil_div(a, b) == IF b > 0 THEN -((-a) \div b) ELSE -(a \div (-b))

-----------------------------------------------------------------------------
(* Strings.                                                               *)

UpperAlpha == <<"A","B","C","D","E","F","G","H","I","J","K","L","M",
                "N","O","P","Q","R","S","T","U","V","W","X","Y","Z">>
LowerAlpha == <<"a","b","c","d","e","f","g","h","i","j","k","l","m",
                "n","o","p","q","r","s","t","u","v","w","x","y","z">>
Digits == <<"0","1","2","3","4","5","6","7","8","9">>

lower_char(c) ==
    IF \E i \in 1..26 : UpperAlpha[i] = c
    THEN LowerAlpha[CHOOSE i \in 1..26 : UpperAlpha[i] = c]
    ELSE c

\* str.lower()
lower(s) == [i \in 1..Len(s) |-> lower_char(s[i])]

is_space(c) == c = " "

RECURSIVE lstrip(_)
lstrip(s) == IF s # <<>> /\ is_space(Head(s)) THEN lstrip(Tail(s)) ELSE s

RECURSIVE rstrip(_)
rstrip(s) ==
    IF s # <<>> /\ is_space(s[Len(s)])
    THEN rstrip(SubSeq(s, 1, Len(s) - 1))
    ELSE s

\* str.strip()
strip(s) == rstrip(lstrip(s))

is_digit(c) == \E i \in 1..10 : Digits[i] = c

digit_val(c) == (CHOOSE i \in 1..10 : Digits[i] = c) - 1

RECURSIVE digits_val(_)
digits_val(s) ==
    IF s = <<>> THEN 0
    ELSE 10 * digits_val(SubSeq(s, 1, Len(s) - 1)) + digit_val(s[Len(s)])

all_digits(s) == s # <<>> /\ \A i \in 1..Len(s) : is_digit(s[i])

-----------------------------------------------------------------------------
(* Python values and results.                                             *)

Absent == [t |-> "absent"]
PyNone == [t |-> "none"]
PyNum(n) == [t |-> "num", n |-> n]
PyStr(s) == [t |-> "str", s |-> s]
PyDict(d) == [t |-> "dict", d |-> d]

Ok(v) == [ok |-> TRUE, v |-> v]
Raise(e) == [ok |-> FALSE, exc |-> e]

\* float(str): surrounding whitespace is ignored, then an optional sign and
\* a decimal numeral (integer numerals only in this model)
float_of_str(s) ==
    LET u == strip(s)
        neg == u # <<>> /\ Head(u) = "-"
        body == IF u # <<>> /\ Head(u) \in {"-", "+"} THEN Tail(u) ELSE u
    IN  IF all_digits(body)
        THEN Ok(IF neg THEN -F(digits_val(body)) ELSE F(digits_val(body)))
        ELSE Raise("ValueError")

\* float(x)
float(x) ==
    CASE x.t = "num" -> Ok(x.n)
      [] x.t = "str" -> float_of_str(x.s)
      [] OTHER -> Raise("TypeError")

\* bool(x): the truth value `not x` tests
truthy(x) ==
    CASE x.t = "none" -> FALSE
      [] x.t = "absent" -> FALSE
      [] x.t = "num" -> x.n # 0
      [] x.t = "str" -> x.s # <<>>
      [] x.t = "dict" -> \E k \in DOMAIN x.d : x.d[k] # Absent
      [] OTHER -> TRUE

\* dict.get(key): None when the key is absent
get(d, k) == IF d[k] = Absent THEN PyNone ELSE d[k]

\* dict.get(key, default)
get_default(d, k, default) == IF d[k] = Absent THEN default ELSE d[k]

\* x.strip().lower() on a value: AttributeError unless x is a str
strip_lower(x) ==
    IF x.t = "str" THEN Ok(lower(strip(x.s))) ELSE Raise("AttributeError")

\* (variant: the comparison without .lower())
lower_eq_exact(x, lit) == x.s = lit

\* x.lower() == lit on a value; callers have checked x is a str
lower_eq(x, lit) == lower(x.s) = lit

-----------------------------------------------------------------------------
(* String literals of the source.                                         *)

s_yes == <<"y","e","s">>
s_no == <<"n","o">>
s_premium == <<"p","r","e","m","i","u","m">>
s_custom == <<"c","u","s","t","o","m">>
s_standard == <<"s","t","a","n","d","a","r","d">>
s_slab_only == <<"s","l","a","b"," ","o","n","l","y">>
s_fabricate_and_install ==
    <<"f","a","b","r","i","c","a","t","e"," ","a","n","d"," ",
      "i","n","s","t","a","l","l">>
s_default_vendor ==
    <<"d","e","f","a","u","l","t"," ","v","e","n","d","o","r">>
s_modern == <<"m","o","d","e","r","n">>
s_traditional == <<"t","r","a","d","i","t","i","o","n","a","l">>
s_oak == <<"o","a","k">>
s_maple == <<"m","a","p","l","e">>

-----------------------------------------------------------------------------
(* get_pricing_data: the pricing table built from the remote CSV.         *)

\* float(row[col]) with the fallback of the except clause
float_or(cell, fallback) ==
    IF float(cell).ok THEN float(cell).v ELSE fallback

\* the key a row is stored under
row_key(row) == lower(strip(row.color))

\* the entry a row contributes
row_entry(row) ==
    [cost |-> float_or(row.cost, F(50)),
     total_sqft |-> float_or(row.total, F(100))]

\* (variant: an earlier row of the same color is kept)
dict_set_keep_first(p, k, v) ==
    [x \in DOMAIN p \cup {k} |-> IF x \in DOMAIN p THEN p[x] ELSE v]

\* pricing[color] = {...}: a later assignment replaces an earlier one
dict_set(p, k, v) ==
    [x \in DOMAIN p \cup {k} |-> IF x = k THEN v ELSE p[x]]

empty_dict == [x \in {} |-> 0]

\* the loop over the rows of the reader
RECURSIVE build_pricing(_)
build_pricing(rows) ==
    IF rows = <<>> THEN empty_dict
    ELSE LET n == Len(rows)
             row == rows[n]
         IN  dict_set(build_pricing(SubSeq(rows, 1, n - 1)),
                      row_key(row), row_entry(row))

\* (variant: the status code is not looked at)
get_pricing_data_unchecked(resp) ==
    IF resp.kind = "error" THEN Raise("ConnectionError")
    ELSE Ok(build_pricing(resp.rows))

\* get_pricing_data() given what requests.get answered
get_pricing_data(resp) ==
    IF resp.kind = "error" THEN Raise("ConnectionError")
    ELSE IF resp.status_code # 200
    THEN Raise("Could not fetch pricing data")
    ELSE Ok(build_pricing(resp.rows))

-----------------------------------------------------------------------------
(* estimate: POST /api/estimate.                                          *)

\* jsonify({}), 200
resp_options == [status |-> 200, body |-> [kind |-> "empty"]]

\* jsonify({"error": msg}), status
resp_error(status, msg) ==
    [status |-> status, body |-> [kind |-> "error", error |-> msg]]

\* jsonify({"preliminary": {...}, "estimate": narrative})
resp_estimate(p) ==
    [status |-> 200, body |-> [kind |-> "estimate", preliminary |-> p]]

\* values of the variables a handler has not assigned yet
no_response == [status |-> 0, body |-> [kind |-> "none"]]
no_locals == [kind |-> "none"]
no_prelim == [kind |-> "none"]
no_pricing_info == [kind |-> "none"]
no_pricing_resp == [kind |-> "none"]

\* `not data or not data.get("totalSqFt")`
missing_project_data(d) ==
    \/ ~truthy(d)
    \/ ~truthy(get(d.d, "totalSqFt"))

\* the assignments from the request body, first exception wins
parse_estimate(d) ==
    LET total == float(get(d, "totalSqFt"))
        color == strip_lower(get_default(d, "color", PyStr(<<>>)))
        sink == float(get_default(d, "sinkQty", PyNum(0)))
        cooktop == float(get_default(d, "cooktopQty", PyNum(0)))
    IN  IF ~total.ok THEN total
        ELSE IF ~color.ok THEN color
        ELSE IF ~sink.ok THEN sink
        ELSE IF ~cooktop.ok THEN cooktop
        ELSE Ok([total_sq_ft |-> total.v,
                 vendor |-> get_default(d, "vendor", PyStr(s_default_vendor)),
                 color |-> color.v,
                 demo |-> get_default(d, "demo", PyStr(s_no)),
                 sink_qty |-> sink.v,
                 cooktop_qty |-> cooktop.v,
                 sink_type |-> get_default(d, "sinkType", PyStr(s_standard)),
                 cooktop_type |->
                     get_default(d, "cooktopType", PyStr(s_standard)),
                 backsplash |-> get_default(d, "backsplash", PyStr(s_no)),
                 edge_detail |->
                     get_default(d, "edgeDetail", PyStr(s_standard)),
                 job_type |->
                     get_default(d, "jobType", PyStr(s_fabricate_and_install))])

\* (variant: the fallback entry whatever the table holds)
pricing_lookup_fallback_only(pricing, color) ==
    [cost |-> F(50), total_sqft |-> F(100)]

\* pricing_data.get(color, {"cost": 50, "total_sqft": 100})
pricing_lookup(pricing, color) ==
    IF color \in DOMAIN pricing
    THEN pricing[color]
    ELSE [cost |-> F(50), total_sqft |-> F(100)]

\* material_cost after the demo and edge multipliers
material_cost_of(l, price_per_sqft) ==
    LET base == Mul(l.total_sq_ft, price_per_sqft)
        with_demo == IF lower_eq(l.demo, s_yes)
                     THEN Mul(base, F(110) \div 100) ELSE base
        multiplier == IF lower_eq(l.edge_detail, s_premium)
                      THEN F(105) \div 100
                      ELSE IF lower_eq(l.edge_detail, s_custom)
                      THEN F(110) \div 100
                      ELSE F(1)
    IN  Mul(with_demo, multiplier)

sink_cost_of(l) ==
    Mul(l.sink_qty,
        IF lower_eq(l.sink_type, s_premium) THEN F(150) ELSE F(100))

cooktop_cost_of(l) ==
    Mul(l.cooktop_qty,
        IF lower_eq(l.cooktop_type, s_premium) THEN F(160) ELSE F(120))

backsplash_cost_of(l) ==
    IF lower_eq(l.backsplash, s_yes) THEN Mul(l.total_sq_ft, F(20)) ELSE 0

\* math.ceil(effective_sq_ft / color_total_sqft)
slab_count_of(l, color_total_sqft) ==
    Ceil_div(Mul(l.total_sq_ft, F(120) \div 100), color_total_sqft)

\* (variant: one markup for every job type)
markup_flat(l) == F(130) \div 100

markup_of(l) ==
    IF lower_eq(l.job_type, s_slab_only)
    THEN F(135) \div 100 ELSE F(130) \div 100

\* total_sq_ft * base_labor_rate * markup
labor_cost_of(l) == Mul(Mul(l.total_sq_ft, F(45)), markup_of(l))

\* the values .lower() is called on
lowered_fields(l) ==
    <<l.demo, l.sink_type, l.cooktop_type, l.backsplash, l.edge_detail,
      l.job_type>>

\* the computation between the pricing lookup and the prompt
compute_estimate(l, info) ==
    LET material == material_cost_of(l, info.cost)
        sink == sink_cost_of(l)
        cooktop == cooktop_cost_of(l)
        backsplash == backsplash_cost_of(l)
    IN  IF \E i \in 1..5 : lowered_fields(l)[i].t # "str"
        THEN Raise("AttributeError")
        ELSE IF info.total_sqft = 0
        THEN Raise("ZeroDivisionError")
        ELSE IF lowered_fields(l)[6].t # "str"
        THEN Raise("AttributeError")
        ELSE Ok([material_cost |-> material,
                 sink_cost |-> sink,
                 cooktop_cost |-> cooktop,
                 backsplash_cost |-> backsplash,
                 labor_cost |-> labor_cost_of(l),
                 preliminary_total |->
                     material + sink + cooktop + backsplash,
                 slab_count |->
                     slab_count_of(l, info.total_sqft)])

-----------------------------------------------------------------------------
(* The requests and remote answers the model draws.                       *)

TotalSqFtValues ==
    {Absent, PyNum(0), PyNum(F(-50)), PyNum(F(100)),
     PyStr(<<" ","5","0">>), PyStr(<<"0">>), PyStr(<<"a","b","c">>)}

ColorValues ==
    {Absent, PyNone,
     PyStr(<<" ","A","l","p","i","n","e"," ","W","h","i","t","e"," ">>),
     PyStr(<<"o","n","y","x">>)}

DemoValues == {Absent, PyStr(<<"Y","e","s">>)}

SinkQtyValues == {Absent, PyNum(F(1)), PyStr(<<"t","w","o">>)}

CooktopQtyValues == {PyNum(F(2)), PyStr(<<"x">>)}

SinkTypeValues == {Absent, PyStr(<<"P","r","e","m","i","u","m">>)}

CooktopTypeValues == {Absent, PyStr(s_premium)}

BacksplashValues == {Absent, PyStr(<<"Y","E","S">>)}

EdgeDetailValues ==
    {Absent, PyStr(<<"P","R","E","M","I","U","M">>), PyStr(s_custom)}

JobTypeValues == {Absent, PyStr(<<"S","l","a","b"," ","O","n","l","y">>)}

VendorValues == {Absent, PyStr(<<"M","S","I">>)}

EstimateBodies ==
    {PyNone} \cup
    {PyDict(d) : d \in
        [totalSqFt : TotalSqFtValues, vendor : VendorValues,
         color : ColorValues, demo : DemoValues, sinkQty : SinkQtyValues,
         cooktopQty : CooktopQtyValues, sinkType : SinkTypeValues,
         cooktopType : CooktopTypeValues, backsplash : BacksplashValues,
         edgeDetail : EdgeDetailValues, jobType : JobTypeValues]}

\* rows of the CSV an estimate fetches: Color Name, Cost/SqFt, Total/SqFt
EstimateRows ==
    {[color |-> <<"A","l","p","i","n","e"," ","W","h","i","t","e">>,
      cost |-> PyStr(<<"6","0">>), total |-> PyStr(<<"8","0">>)],
     [color |-> <<"O","n","y","x"," ">>,
      cost |-> PyStr(<<"4","0">>), total |-> PyStr(<<"-","1","0","0">>)],
     [color |-> <<>>,
      cost |-> PyStr(<<"n","/","a">>), total |-> PyStr(<<"0">>)]}

SeqsUpTo(S, n) == UNION {[1..k -> S] : k \in 0..n}

\* what requests.get can answer
PricingResponses ==
    {[kind |-> "error"], [kind |-> "http", status_code |-> 503, rows |-> <<>>]}
    \cup {[kind |-> "http", status_code |-> 200, rows |-> r] :
            r \in SeqsUpTo(EstimateRows, MaxRows)}

-----------------------------------------------------------------------------
(* The steps of estimate().                                               *)

Idle ==
    /\ locals = no_locals
    /\ pricing_resp = no_pricing_resp
    /\ pricing_data = empty_dict
    /\ pricing_info = no_pricing_info
    /\ prelim = no_prelim
    /\ completion = "none"
    /\ response = no_response
    /\ fetch_calls = 0
    /\ narrative_calls = 0

\* a preflight carries no body
Init ==
    /\ \/ method = "POST" /\ data \in EstimateBodies
       \/ method = "OPTIONS" /\ data = PyNone
    /\ pc = "estimate"
    /\ Idle

\* the return of a handler
Return(r) ==
    /\ response' = r
    /\ pc' = "done"

\* if request.method == "OPTIONS": return jsonify({}), 200
estimate_options ==
    /\ pc = "estimate"
    /\ method = "OPTIONS"
    /\ Return(resp_options)
    /\ UNCHANGED <<method, data, locals, pricing_resp, pricing_data,
                   pricing_info, prelim, completion, fetch_calls,
                   narrative_calls>>

\* the check of the body and the assignments from it
estimate_parse ==
    /\ pc = "estimate"
    /\ method = "POST"
    /\ IF missing_project_data(data)
       THEN /\ Return(resp_error(400, "Missing project data"))
            /\ UNCHANGED locals
       ELSE LET r == parse_estimate(data.d)
            IN  IF r.ok
                THEN /\ locals' = r.v
                     /\ pc' = "get_pricing_data"
                     /\ UNCHANGED response
                ELSE /\ Return(resp_error(500, r.exc))
                     /\ UNCHANGED locals
    /\ UNCHANGED <<method, data, pricing_resp, pricing_data, pricing_info,
                   prelim, completion, fetch_calls, narrative_calls>>

\* pricing_data = get_pricing_data(), the lookup and the computation up to
\* the prompt
estimate_get_pricing_data ==
    /\ pc = "get_pricing_data"
    /\ \E resp \in PricingResponses :
        LET r == get_pricing_data(resp)
            info == pricing_lookup(r.v, locals.color)
            c == compute_estimate(locals, info)
        IN  /\ fetch_calls' = fetch_calls + 1
            /\ pricing_resp' = resp
            /\ IF ~r.ok
               THEN /\ Return(resp_error(500, r.exc))
                    /\ UNCHANGED <<pricing_data, pricing_info, prelim>>
               ELSE /\ pricing_data' = r.v
                    /\ pricing_info' = info
                    /\ IF c.ok
                       THEN /\ prelim' = c.v
                            /\ pc' = "create_completion"
                            /\ UNCHANGED response
                       ELSE /\ Return(resp_error(500, c.exc))
                            /\ UNCHANGED prelim
    /\ UNCHANGED <<method, data, locals, completion, narrative_calls>>

\* (variant: a failed call is made once more before giving up)
estimate_create_completion_retry ==
    /\ pc = "create_completion"
    /\ \E answer \in {"ok", "error"} :
        /\ completion' = answer
        /\ narrative_calls' = narrative_calls + (IF answer = "ok" THEN 1 ELSE 2)
        /\ IF answer = "ok"
           THEN Return(resp_estimate(prelim))
           ELSE Return(resp_error(500, "OpenAIError"))
    /\ UNCHANGED <<method, data, locals, pricing_resp, pricing_data,
                   pricing_info, prelim, fetch_calls>>

\* openai.ChatCompletion.create(...) and the return
estimate_create_completion ==
    /\ pc = "create_completion"
    /\ narrative_calls' = narrative_calls + 1
    /\ \E answer \in {"ok", "error"} :
        /\ completion' = answer
        /\ IF answer = "ok"
           THEN Return(resp_estimate(prelim))
           ELSE Return(resp_error(500, "OpenAIError"))
    /\ UNCHANGED <<method, data, locals, pricing_resp, pricing_data,
                   pricing_info, prelim, fetch_calls>>

Next ==
    \/ estimate_options
    \/ estimate_parse
    \/ estimate_get_pricing_data
    \/ estimate_create_completion

Spec == Init /\ [][Next]_vars

-----------------------------------------------------------------------------
(* get_pricing_data on its own: the table built from any fetched CSV.     *)

\* rows of a fetched CSV: Color Name, Cost/SqFt, Total/SqFt.  A numeric
\* cell is PyNone when the row is shorter than the header.
TableRows ==
    [color : {<<"O","n","y","x">>, <<" ","O","N","Y","X"," ">>,
              <<"J","a","d","e">>},
     cost : {PyStr(<<"6","0">>), PyStr(<<"n","/","a">>), PyNone},
     total : {PyStr(<<"8","0">>), PyStr(<<>>), PyStr(<<" ","1","2","0">>)}]

TableResponses ==
    {[kind |-> "error"], [kind |-> "http", status_code |-> 503, rows |-> <<>>]}
    \cup {[kind |-> "http", status_code |-> 200, rows |-> r] :
            r \in SeqsUpTo(TableRows, MaxTableRows)}

InitPricing ==
    /\ method = "POST"
    /\ data = PyNone
    /\ pc = "pricing"
    /\ Idle

\* one call of get_pricing_data(): it returns the table or raises
call_get_pricing_data ==
    /\ pc = "pricing"
    /\ \E resp \in TableResponses :
        LET r == get_pricing_data(resp)
        IN  /\ fetch_calls' = fetch_calls + 1
            /\ pricing_resp' = resp
            /\ pricing_data' = IF r.ok THEN r.v ELSE pricing_data
            /\ pc' = IF r.ok THEN "returned" ELSE "raised"
    /\ UNCHANGED <<method, data, locals, pricing_info, prelim, completion,
                   response, narrative_calls>>

NextPricing == call_get_pricing_data

SpecPricing == InitPricing /\ [][NextPricing]_vars

-----------------------------------------------------------------------------
(* millwork_estimate: POST /api/millwork-estimate.                        *)

required_fields == <<"roomLength", "roomWidth", "cabinetStyle", "woodType">>

\* f"Missing {field}"
missing_message(field) ==
    CASE field = "roomLength" -> "Missing roomLength"
      [] field = "roomWidth" -> "Missing roomWidth"
      [] field = "cabinetStyle" -> "Missing cabinetStyle"
      [] field = "woodType" -> "Missing woodType"

\* the fields the loop over required_fields finds missing, in its order
missing_fields(d) ==
    SelectSeq(required_fields, LAMBDA f : ~truthy(get(d, f)))

style_multiplier_of(cabinet_style) ==
    IF cabinet_style = s_modern THEN F(120) \div 100
    ELSE IF cabinet_style = s_traditional THEN F(110) \div 100
    ELSE F(1)

wood_multiplier_of(wood_type) ==
    IF wood_type = s_oak THEN F(130) \div 100
    ELSE IF wood_type = s_maple THEN F(120) \div 100
    ELSE F(1)

\* the body of the try block up to the prompt, first exception wins
compute_millwork(d) ==
    LET room_length == float(get(d, "roomLength"))
        room_width == float(get(d, "roomWidth"))
        cabinet_style == strip_lower(get(d, "cabinetStyle"))
        wood_type == strip_lower(get(d, "woodType"))
        area == Mul(room_length.v, room_width.v)
        base_cost == F(50)
    IN  IF ~room_length.ok THEN room_length
        ELSE IF ~room_width.ok THEN room_width
        ELSE IF ~cabinet_style.ok THEN cabinet_style
        ELSE IF ~wood_type.ok THEN wood_type
        ELSE Ok([area |-> area,
                 estimated_cost |->
                     Mul(Mul(Mul(area, base_cost),
                             style_multiplier_of(cabinet_style.v)),
                         wood_multiplier_of(wood_type.v))])

\* jsonify({"area": ..., "estimatedCost": ..., "narrative": ...})
resp_millwork(m) ==
    [status |-> 200,
     body |-> [kind |-> "millwork", area |-> m.area,
               estimatedCost |-> m.estimated_cost]]

\* an exception no handler catches: the framework answers 500
resp_unhandled(e) == [status |-> 500, body |-> [kind |-> "unhandled", exc |-> e]]

RoomLengthValues ==
    {Absent, PyNum(0), PyNum(F(-10)), PyNum(F(10)),
     PyStr(<<"a","b","c">>), PyStr(<<"1","2">>)}

RoomWidthValues == {Absent, PyNum(F(4)), PyNum(F(-4)), PyStr(<<"x">>)}

CabinetStyleValues ==
    {Absent, PyStr(<<>>), PyStr(<<" ","M","o","d","e","r","n">>),
     PyStr(s_traditional), PyStr(<<"s","h","a","k","e","r">>), PyNum(F(5))}

WoodTypeValues ==
    {Absent, PyStr(<<"O","a","k">>), PyStr(<<"m","a","p","l","e"," ">>),
     PyStr(<<"p","i","n","e">>)}

MillworkBodies ==
    {PyNone} \cup
    {PyDict(d) : d \in
        [roomLength : RoomLengthValues, roomWidth : RoomWidthValues,
         cabinetStyle : CabinetStyleValues, woodType : WoodTypeValues]}

InitMillwork ==
    /\ \/ method = "POST" /\ data \in MillworkBodies
       \/ method = "OPTIONS" /\ data = PyNone
    /\ pc = "millwork"
    /\ Idle

\* if request.method == "OPTIONS": return jsonify({}), 200
millwork_options ==
    /\ pc = "millwork"
    /\ method = "OPTIONS"
    /\ Return(resp_options)
    /\ UNCHANGED <<method, data, locals, pricing_resp, pricing_data,
                   pricing_info, prelim, completion, fetch_calls,
                   narrative_calls>>

\* the loop over the required fields and the computation up to the prompt
millwork_parse ==
    /\ pc = "millwork"
    /\ method = "POST"
    /\ IF data.t # "dict"
       THEN /\ Return(resp_unhandled("AttributeError"))
            /\ UNCHANGED prelim
       ELSE IF missing_fields(data.d) # <<>>
       THEN /\ Return(resp_error(400,
                                 missing_message(Head(missing_fields(data.d)))))
            /\ UNCHANGED prelim
       ELSE LET r == compute_millwork(data.d)
            IN  IF r.ok
                THEN /\ prelim' = r.v
                     /\ pc' = "create_completion"
                     /\ UNCHANGED response
                ELSE /\ Return(resp_error(500, r.exc))
                     /\ UNCHANGED prelim
    /\ UNCHANGED <<method, data, locals, pricing_resp, pricing_data,
                   pricing_info, completion, fetch_calls, narrative_calls>>

\* openai.ChatCompletion.create(...) and the return
millwork_create_completion ==
    /\ pc = "create_completion"
    /\ narrative_calls' = narrative_calls + 1
    /\ \E answer \in {"ok", "error"} :
        /\ completion' = answer
        /\ IF answer = "ok"
           THEN Return(resp_millwork(prelim))
           ELSE Return(resp_error(500, "OpenAIError"))
    /\ UNCHANGED <<method, data, locals, pricing_resp, pricing_data,
                   pricing_info, prelim, fetch_calls>>

NextMillwork ==
    \/ millwork_options
    \/ millwork_parse
    \/ millwork_create_completion

SpecMillwork == InitMillwork /\ [][NextMillwork]_vars

-----------------------------------------------------------------------------
(* Vocabulary of the properties.                                          *)

\* a and b are the same string up to the case of their letters
same_letters(a, b) ==
    /\ Len(a) = Len(b)
    /\ \A i \in 1..Len(a) :
        \/ a[i] = b[i]
        \/ \E j \in 1..26 : {a[i], b[i]} = {UpperAlpha[j], LowerAlpha[j]}

\* the field of the request body, Absent when there is no such key
req(k) == IF data.t = "dict" THEN data.d[k] ELSE Absent

\* the string field of the request, or its default when the key is absent
req_str(k, default) == IF req(k) = Absent THEN default ELSE req(k).s

Done == pc = "done"
Returned_estimate == Done /\ response.body.kind = "estimate"

\* the request passed the handler's own checks and the numbers were computed
Computed == prelim # no_prelim

\* the whole number a fixed-point value stands for (the model draws no other)
whole(x) == x \div Scale

\* hundredths of a unit, as a fixed-point value
hundredths(n) == n * (Scale \div 100)

\* ten-thousandths of a unit, as a fixed-point value
ten_thousandths(n) == n * (Scale \div (100 * 100))

\* n = ceil(x / y) for y # 0
is_ceil(n, x, y) ==
    IF y > 0
    THEN (n - 1) * y < x /\ x <= n * y
    ELSE (n - 1) * y > x /\ x >= n * y

-----------------------------------------------------------------------------
(* C1.  A POST /api/estimate whose totalSqFt is missing, zero or a        *)
(* negative number fails and never returns an estimate.  The claim names  *)
(* the failure (a 400 response); the formula asks only that the request   *)
(* does not succeed, so that a violation is an estimate returned.  The    *)
(* code rejects a missing or zero value and lets a negative number        *)
(* through.                                                               *)

total_not_positive ==
    \/ req("totalSqFt") \in {Absent, PyNone}
    \/ req("totalSqFt").t = "num" /\ req("totalSqFt").n <= 0

C1_non_positive_total_rejected ==
    (Done /\ method = "POST" /\ total_not_positive)
        => (response.status # 200 /\ response.body.kind # "estimate")

(* C2.  A numeric field of the request (totalSqFt, sinkQty, cooktopQty)   *)
(* that does not parse as a number ends the request with a 400 response:  *)
(* it is neither read as zero nor reported as a server error.  The code   *)
(* answers 500.                                                           *)

unparseable(v) == v.t = "str" /\ ~float(v).ok

some_number_unparseable ==
    \E k \in {"totalSqFt", "sinkQty", "cooktopQty"} : unparseable(req(k))

C2_unparseable_number_is_client_error ==
    (Done /\ method = "POST" /\ some_number_unparseable)
        => response.status = 400

(* C3.  The material cost returned is totalSquareFeet * pricingInfo.cost, *)
(* times 1.10 exactly when demo is "yes", times 1.05 / 1.10 / 1.0 for     *)
(* edgeDetail "premium" / "custom" / anything else, the multipliers       *)
(* compounding; demo and edgeDetail are compared without regard to case.  *)

demo_pct == IF same_letters(req_str("demo", s_no), s_yes) THEN 110 ELSE 100

edge_pct ==
    IF same_letters(req_str("edgeDetail", s_standard), s_premium) THEN 105
    ELSE IF same_letters(req_str("edgeDetail", s_standard), s_custom)
    THEN 110 ELSE 100

C3_material_cost ==
    Returned_estimate =>
        response.body.preliminary.material_cost =
            ten_thousandths(whole(locals.total_sq_ft)
                            * whole(pricing_info.cost) * demo_pct * edge_pct)

\* an estimate was returned for demo "Yes" and edgeDetail "PREMIUM" at the
\* table's price of 60: 100 * 60 * 1.10 * 1.05 = 6930
C3_witness ==
    /\ Returned_estimate
    /\ req("demo") = PyStr(<<"Y","e","s">>)
    /\ req("edgeDetail") = PyStr(<<"P","R","E","M","I","U","M">>)
    /\ locals.total_sq_ft = F(100)
    /\ pricing_info.cost = F(60)
    /\ response.body.preliminary.material_cost = F(6930)

(* C4.  For an accepted request with positive totalSquareFeet and any     *)
(* entry the pricing table can hold, slabCount is                         *)
(* ceil(totalSquareFeet * 1.20 / pricingInfo.totalSquareFeet) and is at   *)
(* least 1.  In the code a table entry with a negative Total/SqFt gives   *)
(* a negative count.                                                      *)

C4_slab_count_at_least_one ==
    (Returned_estimate /\ locals.total_sq_ft > 0) =>
        /\ is_ceil(response.body.preliminary.slab_count,
                   hundredths(whole(locals.total_sq_ft) * 120),
                   pricing_info.total_sqft)
        /\ response.body.preliminary.slab_count >= 1

(* C5.  The labor cost returned is totalSquareFeet * 45 * markup, markup  *)
(* being 1.35 exactly when jobType is "slab only" (without regard to      *)
(* case) and 1.30 otherwise: a function of totalSqFt and jobType alone.   *)

markup_pct ==
    IF same_letters(req_str("jobType", s_fabricate_and_install), s_slab_only)
    THEN 135 ELSE 130

C5_labor_cost ==
    Returned_estimate =>
        response.body.preliminary.labor_cost =
            hundredths(whole(locals.total_sq_ft) * 45 * markup_pct)

\* an estimate was returned for jobType "Slab Only", a named vendor and a
\* color of the table: 100 * 45 * 1.35 = 6075
C5_witness ==
    /\ Returned_estimate
    /\ req("jobType") = PyStr(<<"S","l","a","b"," ","O","n","l","y">>)
    /\ req("vendor") # Absent
    /\ locals.color \in DOMAIN pricing_data
    /\ locals.total_sq_ft = F(100)
    /\ response.body.preliminary.labor_cost = F(6075)

(* C7.  The pricing entry an accepted request uses is the table's entry   *)
(* for lower(trim(color)) when the table has that key, and cost 50.0,     *)
(* totalSquareFeet 100.0 otherwise; a color that is not in the table, or  *)
(* no color at all, causes no error: such a request only fails when the   *)
(* narrative generator does.                                              *)

requested_color == lower(strip(req_str("color", <<>>)))

C7_pricing_entry ==
    pricing_info # no_pricing_info =>
        /\ requested_color \in DOMAIN pricing_data
            => pricing_info = pricing_data[requested_color]
        /\ requested_color \notin DOMAIN pricing_data
            => /\ pricing_info = [cost |-> F(50), total_sqft |-> F(100)]
               /\ Computed
               /\ Done => \/ response.status = 200
                          \/ completion = "error"

\* estimates were returned for a color of the table sent in another
\* spelling, and for a color the fetched table does not have
C7_witness_present ==
    /\ Returned_estimate
    /\ req("color") =
         PyStr(<<" ","A","l","p","i","n","e"," ","W","h","i","t","e"," ">>)
    /\ requested_color \in DOMAIN pricing_data
    /\ pricing_info = [cost |-> F(60), total_sqft |-> F(80)]

C7_witness ==
    /\ Returned_estimate
    /\ pricing_data # empty_dict
    /\ requested_color \notin DOMAIN pricing_data
    /\ req("color") \in {Absent, PyStr(<<"o","n","y","x">>)}

(* C9.  When the pricing source does not answer 200, or the narrative     *)
(* generator fails, the request ends with a 500 response that carries an  *)
(* error message and no numeric breakdown; neither call is made twice,    *)
(* and after a failed pricing fetch the narrative generator is not called.*)

pricing_fetch_failed ==
    /\ pricing_resp # no_pricing_resp
    /\ \/ pricing_resp.kind = "error"
       \/ pricing_resp.kind = "http" /\ pricing_resp.status_code # 200

C9_upstream_failure ==
    /\ pricing_fetch_failed =>
        /\ Done
        /\ response.status = 500
        /\ response.body.kind = "error"
        /\ fetch_calls = 1
        /\ narrative_calls = 0
    /\ completion = "error" =>
        /\ Done
        /\ response.status = 500
        /\ response.body.kind = "error"
        /\ fetch_calls = 1
        /\ narrative_calls = 1

\* the narrative generator failed after the breakdown was computed
C9_witness ==
    /\ completion = "error"
    /\ Computed
    /\ response.status = 500

\* the pricing source answered 503
C9_witness_fetch ==
    /\ pricing_fetch_failed
    /\ pricing_resp.kind = "http"
    /\ response.status = 500

(* C10.  In one handling of /api/estimate the pricing source is fetched   *)
(* at most once and the narrative generator is called at most once, the   *)
(* latter only after the fetch succeeded and the breakdown was computed;  *)
(* an OPTIONS preflight and a request answered 400 make neither call.     *)

C10_outbound_calls ==
    /\ fetch_calls <= 1
    /\ narrative_calls <= 1
    /\ narrative_calls > 0 =>
        /\ fetch_calls = 1
        /\ pricing_resp.kind = "http"
        /\ pricing_resp.status_code = 200
        /\ Computed
    /\ (Done /\ (method = "OPTIONS" \/ response.status = 400)) =>
        /\ fetch_calls = 0
        /\ narrative_calls = 0

\* both calls were made, and a request was answered 400 without either
C10_witness ==
    /\ Done
    /\ fetch_calls = 1
    /\ narrative_calls = 1

C10_witness_rejected ==
    /\ Done
    /\ response.status = 400
    /\ data # PyNone
    /\ fetch_calls = 0

-----------------------------------------------------------------------------
(* C6.  The pricing table is keyed by the lower-cased, trimmed color      *)
(* name; a Cost/SqFt that does not parse becomes 50.0 and a Total/SqFt    *)
(* that does not parse becomes 100.0; of several rows with one color name *)
(* the last wins; and whatever the numeric cells of the rows hold, a CSV  *)
(* answered with 200 yields a table: no row makes the build raise.        *)

fetched_rows == pricing_resp.rows

normal_key(k) ==
    /\ \A i \in 1..Len(k) : \A j \in 1..26 : k[i] # UpperAlpha[j]
    /\ k # <<>> => (k[1] # " " /\ k[Len(k)] # " ")

\* row i is the last row of its color
last_of_its_color(i) ==
    \A j \in (i + 1)..Len(fetched_rows) :
        lower(strip(fetched_rows[j].color)) # lower(strip(fetched_rows[i].color))

parsed_or(cell, fallback) ==
    IF cell.t = "str" /\ float(cell).ok THEN float(cell).v ELSE fallback

not_positive_number(v) ==
    \/ v.t = "num" /\ v.n <= 0
    \/ v.t = "str" /\ (~float(v).ok \/ float(v).v <= 0)

millwork_input_invalid ==
    \/ \E k \in {"roomLength", "roomWidth", "cabinetStyle", "woodType"} :
        req(k) \in {Absent, PyNone}
    \/ not_positive_number(req("roomLength"))
    \/ not_positive_number(req("roomWidth"))

C8_millwork_invalid_input_rejected ==
    (Done /\ method = "POST" /\ millwork_input_invalid)
        => (response.status # 200 /\ response.body.kind # "millwork")

=============================================================================
